---------------------------- MODULE Spec2Model ----------------------------
(***************************************************************************)
(* A model of the per-tab session coordinator of fast-playwright-mcp       *)
(* (src/src/tab.ts, class Tab).                                            *)
(*                                                                         *)
(* Granularity.  The program runs on a single-threaded event loop: a       *)
(* driver event, a driver response or a timer is delivered in its own      *)
(* turn, and the promise reactions that turn makes runnable are run to     *)
(* completion before the next turn starts.  One action of the model is one *)
(* such turn: the synchronous code of the handler together with the chain  *)
(* of continuations it releases (for example the .then of the guarded      *)
(* action, the resolution of Promise.race and the statements of the        *)
(* caller after its await).                                                *)
(***************************************************************************)
EXTENDS Integers, Sequences, FiniteSets, TLC

\* ------------------------------------------------------------------ bounds
MaxCalls == 2
MaxModals == 2
MaxMessages == 2
MaxNavigations == 1
MaxStarts == 2
MaxWaits == 1
MaxRequests == 2
MaxDownloads == 2
MaxTimedWaits == 2
MaxRefCalls == 4
MaxSelectors == 2
\* Navigation events and callers' calls happen at multiples of EventGrid
\* milliseconds after construction, up to GridSteps of them; timers fall due
\* in between.
EventGrid == 2500
GridSteps == 5

\* ------------------------------------------------------- program constants
\* getNavigationTimeouts()
checkInterval == 100
staleTimeout == 10000
\* TIMEOUTS.DEFAULT_PAGE_TIMEOUT (src/config/constants.ts)
DEFAULT_PAGE_TIMEOUT == 5000
navigationTimeout == DEFAULT_PAGE_TIMEOUT

\* Date.now() when the tab is constructed: milliseconds since the epoch, far
\* more than any of the timeouts.
T0 == 2 * staleTimeout
Horizon == T0 + GridSteps * EventGrid

CallIds == 1 .. MaxCalls
Titles == {"A", "B"}
ModalTypes == {"dialog", "fileChooser"}
MessageKinds == {"console", "pageerror"}
Ops == {"updateTitle", "captureSnapshot", "waitForCompletion"}
RequestIds == 1 .. MaxRequests
DownloadIds == 1 .. MaxDownloads
TimedWaitIds == 1 .. MaxTimedWaits

VARIABLES
  modalStates,            \* Tab._modalStates: the pending modal entries, in order
  listeners,              \* the once-listeners of TabEvents.modalState, in registration order
  calls,                  \* the calls of _raceAgainstModalStates and of the operation around each
  lastTitle,              \* Tab._lastTitle
  consoleMessages,        \* Tab._consoleMessages
  recentConsoleMessages,  \* Tab._recentConsoleMessages
  closed,                 \* the driver reported the page closed
  closeNotified,          \* number of calls of the _onPageClose callback
  navigateCall,           \* position of the navigate(url) call
  \* history variables (what happened, recorded apart from the program's own state)
  modalSeen,              \* every entry handed to setModalState, in order of occurrence
  modalCleared,           \* every entry handed to clearModalState
  emitted,                \* number of modalState events emitted
  messagesSeen,           \* number of console/pageerror events so far
  attached,               \* message id -> number of returned snapshots that carry it
  arrivedSince,           \* messages that arrived since the last successful capture
  clearedSince,           \* an artifact clear happened since the last successful capture
  dropped,                \* messages removed from the recent buffer by an artifact clear
  \* the navigation tracker
  now,                    \* Date.now(), in milliseconds
  navigationState,        \* Tab._navigationState: isNavigating, lastNavigationStart,
                          \* navigationPromise (index into watchers, 0: undefined)
  watchers,               \* the promises made by _createNavigationPromise, with the
                          \* due time of the pending checkComplete timer of each
  waiters,                \* the calls of waitForNavigationComplete
  navHistory,             \* history: the navigation events observed so far
  \* the artifacts beside the console buffers
  requests,               \* Tab._requests: request -> "absent" (no key), "null" or "response"
  requestHistory,         \* history: the requests issued and those responded to
  sinceClear,             \* history: the console messages and the requests whose events
                          \* arrived since the last _clearCollectedArtifacts
  downloads,              \* Tab._downloads: the entries, in order
  downloadTasks,          \* position of the _downloadStarted call of each download
  saved,                  \* history: downloads whose saveAs completed successfully
  propagated,             \* number of failures that escaped a background handler
  \* navigate(url) beyond its position
  navigateWait,           \* the goto outcome, the download wait and the grace timer
  \* waitForTimeout
  timedWaits,             \* the calls of waitForTimeout
  \* custom references
  customRefCounter,       \* Tab._customRefCounter
  customRefMappings,      \* Tab._customRefMappings: ref -> selector ("" : no key)
  refIds,                 \* history: what getNextCustomRefId returned, in call order
  \* selector resolution
  resolution,             \* the last call of resolveFirstElement / refLocators
  \* snapshot texts
  snapshotCall,           \* the last capture that had a selector or a maxLength
  \* drag resolution
  drag                    \* the last call of resolveDragElements

sessionVars == << modalStates, listeners, calls, lastTitle, consoleMessages,
                  recentConsoleMessages, closed, closeNotified, navigateCall,
                  modalSeen, modalCleared, emitted, messagesSeen, attached,
                  arrivedSince, clearedSince, dropped >>

navVars == << now, navigationState, watchers, waiters, navHistory >>

artifactVars == << requests, requestHistory, sinceClear >>

downloadVars == << downloads, downloadTasks, saved, propagated >>

refVars == << customRefCounter, customRefMappings, refIds >>

callVars == << resolution, snapshotCall, drag >>

extVars == << artifactVars, downloadVars, navigateWait, timedWaits, refVars,
              callVars >>

vars == << sessionVars, navVars, extVars >>

\* ------------------------------------------------------------ small helpers
SeqToSet(s) == { s[i] : i \in 1 .. Len(s) }

RECURSIVE Without(_, _)
Without(s, x) ==
  IF s = << >> THEN << >>
  ELSE IF Head(s) = x THEN Without(Tail(s), x)
       ELSE << Head(s) >> \o Without(Tail(s), x)

Max(a, b) == IF a >= b THEN a ELSE b

\* ----------------------------------------------------------- call records
NoRace == [st |-> "none", val |-> << >>]
NoOut == [st |-> "none", kind |-> "none", modalStates |-> << >>,
          consoleMessages |-> << >>]
NoCall == [op |-> "none", act |-> "notStarted", race |-> NoRace,
           tabSnapshot |-> FALSE, out |-> NoOut, entry |-> << >>,
           during |-> << >>, got |-> "about:blank", expected |-> << >>,
           left |-> << >>, clean |-> FALSE]

\* The awaits of a guarded action, in order; the action settles after the last.
FirstAwait(op) ==
  CASE op = "updateTitle" -> "title"
    [] op = "captureSnapshot" -> "snapshotForAI"
    [] op = "waitForCompletion" -> "callback"

Running(c) == calls[c].act \in {"title", "snapshotForAI", "callback"}
LastAwait(c) == calls[c].act \in {"title", "callback"}

\* --------------------------------------------------------- Tab, the program

\* modalStates(): the list itself
modalStatesOf(ms) == ms

\* setModalState: this._modalStates.push(modalState)
setModalStatePush(ms, m) == Append(ms, m)

\* A clearModalState that compares the kind of interruption, not the entry.
clearModalStateByType(ms, m) == SelectSeq(ms, LAMBDA s : s.type # m.type)

\* clearModalState: filter((state) => state !== modalState)
clearModalStateFilter(ms, m) == SelectSeq(ms, LAMBDA s : s # m)

\* A guard that lets the action start while a single modal state is pending.
raceBlockedAboveOne(ms) == Len(ms) > 1

\* _raceAgainstModalStates: if (this.modalStates().length) return this.modalStates()
raceBlocked(ms) == Len(modalStatesOf(ms)) > 0

\* A listener that resolves the race without the modal state it was given.
raceListenerValueEmpty(m) == << >>

\* the listener: promise.resolve([modalState])
raceListenerValue(m) == << m >>

\* action().then(() => { this.off(...); return []; })
raceActionValue == << >>

\* A .then callback that forgets to remove the listener.
offListenerForgotten(ls, c) == ls

\* this.off(TabEvents.modalState, listener)
offListener(ls, c) == Without(ls, c)

\* push read as unshift: the message is put in front
handleConsoleMessageUnshift(msgs, m) == << m >> \o msgs

\* _handleConsoleMessage: push onto both lists
handleConsoleMessageAll(msgs, m) == Append(msgs, m)
handleConsoleMessageRecent(recent, m) == Append(recent, m)

\* A capture that hands out the recent buffer without starting a new one.
captureLeaveUndrained(recent) == recent

\* A capture that resets the recent buffer before attaching it.
captureAttachAfterReset(recent) == << >>

\* _captureSnapshotInternal, after the race: what is attached, what is left
captureAttach(recent) == recent
captureLeave(recent) == << >>

\* An action whose result is dropped once a modal state has won the race.
updateTitleStoreUnlessLost(c, t) ==
  IF calls[c].race.st = "pending" THEN t ELSE lastTitle

\* updateTitle's action: this._lastTitle = await page.title()
updateTitleStore(c, t) == t

\* The statements of an operation after `await this._raceAgainstModalStates(...)`,
\* for call c whose race resolved with list v, in a state with recent buffer
\* `recent`: the value it returns and the recent buffer it leaves.
AfterRace(call, v, recent) ==
  IF call.op = "captureSnapshot"
    THEN IF call.tabSnapshot
           THEN [out |-> [st |-> "returned", kind |-> "snapshot",
                          modalStates |-> << >>,
                          consoleMessages |-> captureAttach(recent)],
                 recent |-> captureLeave(recent), drained |-> TRUE]
           ELSE [out |-> [st |-> "returned", kind |-> "fallback",
                          modalStates |-> v, consoleMessages |-> << >>],
                 recent |-> recent, drained |-> FALSE]
    ELSE [out |-> [st |-> "returned", kind |-> "void", modalStates |-> << >>,
                   consoleMessages |-> << >>],
          recent |-> recent, drained |-> FALSE]

\* History of a drain: every attached message is counted once more.
\* navigate(url) before the first call: nothing awaited, no timer
NoNavigateWait == [goto |-> "none", downloadEvent |-> "none", graceTimer |-> "none",
                   loadState |-> "none", inGrace |-> FALSE,
                   stateAtAbort |-> [isNavigating |-> FALSE, lastNavigationStart |-> 0,
                                     navigationPromise |-> 0]]

\* the names and selectors handed to registerCustomRef
Refs == {"r1", "r2"}
RefSelectors == {"#a", "#b"}

\* no call of resolveFirstElement or refLocators yet
NoResolution == [op |-> "none"]
NoSnapshotCall == [st |-> "none"]
NoDrag == [st |-> "none"]

Attach(att, msgs) ==
  [m \in DOMAIN att |-> IF m \in SeqToSet(msgs) THEN att[m] + 1 ELSE att[m]]

Init ==
  /\ modalStates = << >>
  /\ listeners = << >>
  /\ calls = [c \in CallIds |-> NoCall]
  /\ lastTitle = "about:blank"
  /\ consoleMessages = << >>
  /\ recentConsoleMessages = << >>
  /\ closed = FALSE
  /\ closeNotified = 0
  /\ navigateCall = [n |-> 0, pc |-> "idle"]
  /\ modalSeen = << >>
  /\ modalCleared = {}
  /\ emitted = 0
  /\ messagesSeen = 0
  /\ attached = [m \in 1 .. MaxMessages |-> 0]
  /\ arrivedSince = << >>
  /\ clearedSince = FALSE
  /\ dropped = {}
  /\ now = T0
  /\ navigationState = [isNavigating |-> FALSE, lastNavigationStart |-> 0,
                        navigationPromise |-> 0]
  /\ watchers = << >>
  /\ waiters = << >>
  /\ navHistory = [startSeen |-> FALSE, startAt |-> 0, loadSinceStart |-> FALSE,
                   last |-> "none"]
  /\ requests = [r \in RequestIds |-> "absent"]
  /\ requestHistory = [issued |-> {}, responded |-> {}]
  /\ sinceClear = [messages |-> << >>, requests |-> {}]
  /\ downloads = << >>
  /\ downloadTasks = [d \in DownloadIds |-> "none"]
  /\ saved = {}
  /\ propagated = 0
  /\ navigateWait = NoNavigateWait
  /\ timedWaits = [w \in TimedWaitIds |-> "none"]
  /\ customRefCounter = 0
  /\ customRefMappings = [ref \in Refs |-> ""]
  /\ refIds = << >>
  /\ resolution = NoResolution
  /\ snapshotCall = NoSnapshotCall
  /\ drag = NoDrag


\* ------------------------------------------------------- resolving a race
\* The part of the state the continuation of an operation reads and writes.
Cont == [calls |-> calls, recent |-> recentConsoleMessages, attached |-> attached,
         since |-> arrivedSince, clearedSince |-> clearedSince]

\* Promise.race settles with v for call c: nothing if it settled before,
\* otherwise the operation around it continues (AfterRace) in the same turn.
Resolve(st, c, v) ==
  IF st.calls[c].race.st # "pending" THEN st
  ELSE LET r == AfterRace(st.calls[c], v, st.recent) IN
       [calls |-> [st.calls EXCEPT
                     ![c].race = [st |-> "resolved", val |-> v],
                     ![c].out = r.out,
                     ![c].expected = IF r.drained THEN st.since ELSE << >>,
                     ![c].left = IF r.out.kind = "fallback" THEN st.recent ELSE << >>,
                     ![c].clean = r.drained /\ ~st.clearedSince],
        recent |-> r.recent,
        attached |-> IF r.drained THEN Attach(st.attached, r.out.consoleMessages)
                     ELSE st.attached,
        since |-> IF r.drained THEN << >> ELSE st.since,
        clearedSince |-> IF r.drained THEN FALSE ELSE st.clearedSince]

\* emit(TabEvents.modalState, m): the once-listeners run in registration order,
\* each resolving the ManualPromise of its own call.
RECURSIVE Emit(_, _, _)
Emit(st, ls, m) ==
  IF ls = << >> THEN st
  ELSE Emit(Resolve(st, Head(ls), raceListenerValue(m)), Tail(ls), m)

\* the listeners left registered after an emit: once-listeners are removed
listenersAfterEmit(ls) == << >>

SetCont(st) ==
  /\ calls' = st.calls
  /\ recentConsoleMessages' = st.recent
  /\ attached' = st.attached
  /\ arrivedSince' = st.since
  /\ clearedSince' = st.clearedSince

\* ---------------------------------------------------------------- actions

\* A caller invokes updateTitle(), captureSnapshot()/capturePartialSnapshot()
\* or waitForCompletion(callback): _raceAgainstModalStates up to its first await.
StartCall(c, op) ==
  /\ UNCHANGED << navVars, extVars >>
  /\ ~closed
  /\ calls[c].op = "none"
  /\ \A d \in CallIds : d < c => calls[d].op # "none"
  /\ LET call == [NoCall EXCEPT !.op = op, !.entry = modalStates] IN
     IF raceBlocked(modalStates)
       THEN /\ SetCont(Resolve(
                 [Cont EXCEPT !.calls[c] = [call EXCEPT !.race.st = "pending"]],
                 c, modalStatesOf(modalStates)))
            /\ UNCHANGED listeners
       ELSE /\ calls' = [calls EXCEPT
                          ![c] = [call EXCEPT !.race.st = "pending",
                                              !.act = FirstAwait(op)]]
            /\ listeners' = Append(listeners, c)
            /\ UNCHANGED << recentConsoleMessages, attached, arrivedSince,
                            clearedSince >>
  /\ UNCHANGED << modalStates, lastTitle, consoleMessages, closed, closeNotified,
                  navigateCall, modalSeen, modalCleared, emitted, messagesSeen,
                  dropped >>

\* The driver answers page._snapshotForAI(); the capture action goes on to
\* `await this.page.title()`.
ActionAwait(c) ==
  /\ UNCHANGED << navVars, extVars >>
  /\ calls[c].act = "snapshotForAI"
  /\ calls' = [calls EXCEPT ![c].act = "title"]
  /\ UNCHANGED << modalStates, listeners, lastTitle, consoleMessages,
                  recentConsoleMessages, closed, closeNotified, navigateCall,
                  modalSeen, modalCleared, emitted, messagesSeen, attached,
                  arrivedSince, clearedSince, dropped >>

\* The driver answers the last await of the guarded action with t: the action
\* settles normally, its .then removes the listener and offers [] to the race.
ActionDone(c, t) ==
  /\ UNCHANGED << navVars, extVars >>
  /\ LastAwait(c)
  /\ calls[c].op = "updateTitle" \/ t = "A"
  /\ lastTitle' = IF calls[c].op = "updateTitle" THEN updateTitleStore(c, t)
                  ELSE lastTitle
  /\ listeners' = offListener(listeners, c)
  /\ SetCont(Resolve(
       [Cont EXCEPT !.calls[c].act = "done",
                    !.calls[c].got = IF calls[c].op = "updateTitle" THEN t
                                     ELSE calls[c].got,
                    !.calls[c].tabSnapshot = (calls[c].op = "captureSnapshot")],
       c, raceActionValue))
  /\ UNCHANGED << modalStates, consoleMessages, closed, closeNotified,
                  navigateCall, modalSeen, modalCleared, emitted, messagesSeen,
                  dropped >>

\* The driver rejects an await of the guarded action: the action rejects, its
\* .then callback does not run, and the race (if still open) rejects.
ActionFail(c) ==
  /\ UNCHANGED << navVars, extVars >>
  /\ Running(c)
  /\ calls' = [calls EXCEPT
                ![c].act = "failed",
                ![c].race = IF calls[c].race.st = "pending"
                              THEN [st |-> "rejected", val |-> << >>]
                              ELSE calls[c].race,
                ![c].out = IF calls[c].race.st = "pending"
                             THEN [NoOut EXCEPT !.st = "threw"]
                             ELSE calls[c].out]
  /\ UNCHANGED << modalStates, listeners, lastTitle, consoleMessages,
                  recentConsoleMessages, closed, closeNotified, navigateCall,
                  modalSeen, modalCleared, emitted, messagesSeen, attached,
                  arrivedSince, clearedSince, dropped >>

\* page 'dialog' (_dialogShown) or 'filechooser': setModalState(entry).
SetModalState(type) ==
  /\ UNCHANGED << navVars, extVars >>
  /\ ~closed
  /\ Len(modalSeen) < MaxModals
  /\ LET m == [id |-> Len(modalSeen) + 1, type |-> type]
         marked == [c \in CallIds |->
                      IF Running(c) /\ calls[c].during = << >>
                        THEN [calls[c] EXCEPT !.during = << m >>]
                        ELSE calls[c]]
     IN /\ modalStates' = setModalStatePush(modalStates, m)
        /\ modalSeen' = Append(modalSeen, m)
        /\ emitted' = emitted + 1
        /\ SetCont(Emit([Cont EXCEPT !.calls = marked], listeners, m))
        /\ listeners' = listenersAfterEmit(listeners)
  /\ UNCHANGED << lastTitle, consoleMessages, closed, closeNotified,
                  navigateCall, modalCleared, messagesSeen, dropped >>

\* A caller (a tool that handles the dialog or the file chooser) clears entry m.
ClearModalState(m) ==
  /\ UNCHANGED << navVars, extVars >>
  /\ modalStates' = clearModalStateFilter(modalStates, m)
  /\ modalCleared' = modalCleared \cup {m}
  /\ UNCHANGED << listeners, calls, lastTitle, consoleMessages,
                  recentConsoleMessages, closed, closeNotified, navigateCall,
                  modalSeen, emitted, messagesSeen, attached, arrivedSince,
                  clearedSince, dropped >>

\* page 'console' or 'pageerror': _handleConsoleMessage.
ConsoleEvent(kind) ==
  /\ UNCHANGED << navVars, requests, requestHistory, downloadVars, navigateWait,
                  timedWaits, refVars, callVars >>
  /\ ~closed
  /\ messagesSeen < MaxMessages
  /\ LET m == messagesSeen + 1 IN
       /\ consoleMessages' = handleConsoleMessageAll(consoleMessages, m)
       /\ recentConsoleMessages' = handleConsoleMessageRecent(recentConsoleMessages, m)
       /\ arrivedSince' = Append(arrivedSince, m)
       /\ sinceClear' = [sinceClear EXCEPT !.messages = Append(@, m)]
  /\ messagesSeen' = messagesSeen + 1
  /\ UNCHANGED << modalStates, listeners, calls, lastTitle, closed,
                  closeNotified, navigateCall, modalSeen, modalCleared, emitted,
                  attached, clearedSince, dropped >>

\* page 'request': the request is entered with no response yet
requestsSetNull(reqs, r) == [reqs EXCEPT ![r] = "null"]

RequestEvent(r) ==
  /\ UNCHANGED << sessionVars, navVars, downloadVars, navigateWait, timedWaits,
                  refVars, callVars >>
  /\ ~closed
  /\ r \notin requestHistory.issued
  /\ requests' = requestsSetNull(requests, r)
  /\ requestHistory' = [requestHistory EXCEPT !.issued = @ \cup {r}]
  /\ sinceClear' = [sinceClear EXCEPT !.requests = @ \cup {r}]

\* page 'response': the response is entered under its request, whether the
\* request is still a key of the map or not
requestsSetResponse(reqs, r) == [reqs EXCEPT ![r] = "response"]

ResponseEvent(r) ==
  /\ UNCHANGED << sessionVars, navVars, downloadVars, navigateWait, timedWaits,
                  refVars, callVars, sinceClear >>
  /\ ~closed
  /\ r \in requestHistory.issued \ requestHistory.responded
  /\ requests' = requestsSetResponse(requests, r)
  /\ requestHistory' = [requestHistory EXCEPT !.responded = @ \cup {r}]

\* _clearCollectedArtifacts
clearedConsoleMessages(msgs) == << >>
clearedRecentConsoleMessages(recent) == << >>
clearedRequests(reqs) == [r \in DOMAIN reqs |-> "absent"]

ClearCollectedArtifacts ==
  /\ consoleMessages' = clearedConsoleMessages(consoleMessages)
  /\ recentConsoleMessages' = clearedRecentConsoleMessages(recentConsoleMessages)
  /\ requests' = clearedRequests(requests)
  /\ dropped' = dropped \cup SeqToSet(recentConsoleMessages)
  /\ clearedSince' = TRUE
  /\ sinceClear' = [messages |-> << >>, requests |-> {}]

\* page 'close': _onClose.
Close ==
  /\ UNCHANGED << navVars, requestHistory, downloadVars, navigateWait,
                  timedWaits, refVars, callVars >>
  /\ ~closed
  /\ closed' = TRUE
  /\ ClearCollectedArtifacts
  /\ closeNotified' = closeNotified + 1
  /\ UNCHANGED << modalStates, listeners, calls, lastTitle, navigateCall,
                  modalSeen, modalCleared, emitted, messagesSeen, attached,
                  arrivedSince >>

\* ------------------------------------------------------------ navigate(url)

\* what navigate leaves unchanged beside its own position and waits
navigateFrame == << modalStates, listeners, calls, lastTitle, consoleMessages,
                    recentConsoleMessages, closed, closeNotified, modalSeen,
                    modalCleared, emitted, messagesSeen, attached, arrivedSince,
                    clearedSince, dropped, navVars, artifactVars, downloadVars,
                    timedWaits, refVars, callVars >>

\* navigate(url) up to `await this.page.goto(...)`: the artifacts are cleared,
\* the wait for a 'download' event is started and goto is issued.
NavigateCall ==
  /\ UNCHANGED << navVars, requestHistory, downloadVars, timedWaits, refVars,
                  callVars >>
  /\ ~closed
  /\ navigateCall.pc \in {"idle", "done", "threw"}
  /\ navigateCall.n < MaxNavigations
  /\ ClearCollectedArtifacts
  /\ navigateCall' = [n |-> navigateCall.n + 1, pc |-> "goto"]
  /\ navigateWait' = [NoNavigateWait EXCEPT !.goto = "pending",
                                            !.downloadEvent = "pending"]
  /\ UNCHANGED << modalStates, listeners, calls, lastTitle, closed,
                  closeNotified, modalSeen, modalCleared, emitted, messagesSeen,
                  attached, arrivedSince >>

\* page.goto resolves: navigate goes on to waitForLoadState('load').
NavigateGotoResolved ==
  /\ UNCHANGED navigateFrame
  /\ navigateCall.pc = "goto"
  /\ navigateCall' = [navigateCall EXCEPT !.pc = "loadState"]
  /\ navigateWait' = [navigateWait EXCEPT !.goto = "resolved"]

\* mightBeDownload: the message of the rejection is abort-style
mightBeDownload(kind) == kind = "aborted"

\* `if (!download) throw e`: where navigate stands once Promise.race of the
\* download wait and the grace timer has a value
afterDownloadRace(value) == IF value = "download" THEN "shortDelay" ELSE "threw"

\* where navigate stands after the rejection of goto: it rethrows at once
\* unless the rejection might be a download; then it races the download wait,
\* which may have settled already, against a timer of LONG_DELAY
afterGotoRejected(kind, downloadEvent) ==
  IF ~mightBeDownload(kind) THEN "threw"
  ELSE IF downloadEvent = "pending" THEN "grace"
  ELSE afterDownloadRace(downloadEvent)

\* page.goto rejects with an error that is not abort-style: navigate rethrows.
NavigateGotoRejected ==
  /\ UNCHANGED navigateFrame
  /\ navigateCall.pc = "goto"
  /\ navigateCall' = [navigateCall EXCEPT
                        !.pc = afterGotoRejected("rejected", navigateWait.downloadEvent)]
  /\ navigateWait' = [navigateWait EXCEPT !.goto = "rejected"]

\* page.goto rejects with net::ERR_ABORTED or "Download is starting".
NavigateGotoAborted ==
  /\ UNCHANGED navigateFrame
  /\ navigateCall.pc = "goto"
  /\ navigateCall' = [navigateCall EXCEPT
                        !.pc = afterGotoRejected("aborted", navigateWait.downloadEvent)]
  /\ navigateWait' = [navigateWait EXCEPT !.goto = "aborted", !.graceTimer = "pending",
                                          !.stateAtAbort = navigationState]

\* page.waitForEvent('download') fails (its timeout, the page going away);
\* the .catch(logUnhandledError) turns that into the value undefined.
DownloadWaitFails ==
  /\ UNCHANGED navigateFrame
  /\ navigateWait.downloadEvent = "pending"
  /\ navigateWait' = [navigateWait EXCEPT !.downloadEvent = "undefined"]
  /\ navigateCall' = [navigateCall EXCEPT
                        !.pc = IF @ = "grace" THEN afterDownloadRace("undefined") ELSE @]

\* the timer of LONG_DELAY fires
GraceTimerFires ==
  /\ UNCHANGED navigateFrame
  /\ navigateWait.graceTimer = "pending"
  /\ navigateWait' = [navigateWait EXCEPT !.graceTimer = "fired"]
  /\ navigateCall' = [navigateCall EXCEPT
                        !.pc = IF @ = "grace" THEN afterDownloadRace("undefined") ELSE @]

\* the timer of SHORT_DELAY fires: navigate returns
ShortDelayFires ==
  /\ UNCHANGED navigateFrame
  /\ navigateCall.pc = "shortDelay"
  /\ navigateCall' = [navigateCall EXCEPT !.pc = "done"]
  /\ UNCHANGED navigateWait

\* waitForLoadState catches the failure of the driver's wait and logs it
loadStateRethrown(outcome) == IF outcome = "failed" THEN "threw" ELSE "done"

loadStateCaught(outcome) == "done"

\* waitForLoadState settles: navigate returns.
NavigateLoadStateSettled ==
  /\ UNCHANGED navigateFrame
  /\ navigateCall.pc = "loadState"
  /\ navigateCall' = [navigateCall EXCEPT !.pc = loadStateCaught("ok")]
  /\ navigateWait' = [navigateWait EXCEPT !.loadState = "ok"]

\* the driver's waitForLoadState fails or times out
NavigateLoadStateFailed ==
  /\ UNCHANGED navigateFrame
  /\ navigateCall.pc = "loadState"
  /\ navigateCall' = [navigateCall EXCEPT !.pc = loadStateCaught("failed")]
  /\ navigateWait' = [navigateWait EXCEPT !.loadState = "failed"]

\* ---------------------------------------------------------------- downloads

\* the entry _downloadStarted appends once the output path is known
downloadEntryFinishedAtPush == TRUE

downloadEntryFinished == FALSE

downloadEntry(d) == [download |-> d, finished |-> downloadEntryFinished]

\* `entry.finished = true`, the statement after `await download.saveAs(...)`
markFinished(entries, d) ==
  [i \in DOMAIN entries |->
     IF entries[i].download = d THEN [entries[i] EXCEPT !.finished = TRUE]
     ELSE entries[i]]

\* the .catch of the 'download' handler: the failure is logged and dropped
downloadErrorRethrown(n) == n + 1

downloadErrorIgnored(n) == n

\* page 'download': the handler starts _downloadStarted, which suspends in
\* context.outputFile(...); the download wait of a navigate call in progress
\* is resolved with the download, and so is its race if it has got that far.
DownloadEvent(d) ==
  /\ UNCHANGED << modalStates, listeners, calls, lastTitle, consoleMessages,
                  recentConsoleMessages, closed, closeNotified, modalSeen,
                  modalCleared, emitted, messagesSeen, attached, arrivedSince,
                  clearedSince, dropped, navVars, artifactVars, timedWaits,
                  refVars, callVars >>
  /\ ~closed
  /\ downloadTasks[d] = "none"
  /\ \A e \in DownloadIds : e < d => downloadTasks[e] # "none"
  /\ downloadTasks' = [downloadTasks EXCEPT ![d] = "outputFile"]
  /\ UNCHANGED << downloads, saved, propagated >>
  /\ navigateWait' =
       [navigateWait EXCEPT
          !.downloadEvent = IF @ = "pending" THEN "download" ELSE @,
          !.inGrace = @ \/ (/\ navigateWait.goto \in {"pending", "aborted"}
                            /\ navigateWait.graceTimer # "fired")]
  /\ navigateCall' = [navigateCall EXCEPT
                        !.pc = IF @ = "grace" THEN afterDownloadRace("download") ELSE @]

downloadFrame == << sessionVars, navVars, artifactVars, navigateWait, timedWaits,
                    refVars, callVars >>

\* context.outputFile(...) resolves: the entry is appended, saveAs is issued
DownloadOutputFileResolved(d) ==
  /\ UNCHANGED downloadFrame
  /\ downloadTasks[d] = "outputFile"
  /\ downloadTasks' = [downloadTasks EXCEPT ![d] = "saveAs"]
  /\ downloads' = Append(downloads, downloadEntry(d))
  /\ UNCHANGED << saved, propagated >>

\* context.outputFile(...) rejects: _downloadStarted rejects, the handler's
\* .catch takes the failure
DownloadOutputFileRejected(d) ==
  /\ UNCHANGED downloadFrame
  /\ downloadTasks[d] = "outputFile"
  /\ downloadTasks' = [downloadTasks EXCEPT ![d] = "failed"]
  /\ propagated' = downloadErrorIgnored(propagated)
  /\ UNCHANGED << downloads, saved >>

\* download.saveAs(...) resolves
DownloadSaveResolved(d) ==
  /\ UNCHANGED downloadFrame
  /\ downloadTasks[d] = "saveAs"
  /\ downloadTasks' = [downloadTasks EXCEPT ![d] = "finished"]
  /\ downloads' = markFinished(downloads, d)
  /\ saved' = saved \cup {d}
  /\ UNCHANGED propagated

\* download.saveAs(...) rejects
DownloadSaveRejected(d) ==
  /\ UNCHANGED downloadFrame
  /\ downloadTasks[d] = "saveAs"
  /\ downloadTasks' = [downloadTasks EXCEPT ![d] = "failed"]
  /\ propagated' = downloadErrorIgnored(propagated)
  /\ UNCHANGED << downloads, saved >>

\* ------------------------------------------------- the navigation tracker

\* isNavigating(): the staleness test
isStale(t, last) == t - last > staleTimeout

\* An isNavigating() without the staleness correction.
isNavigatingFlagUncorrected(flag, t, last) == flag

\* isNavigating(): the flag it leaves, which is also the value it returns
isNavigatingFlag(flag, t, last) == IF isStale(t, last) /\ flag THEN FALSE ELSE flag

\* A checkComplete that times out on the staleness threshold instead.
checkTimedOutOnStale(t, last) == t - last > staleTimeout

\* checkComplete: the timeout test
checkTimedOut(t, last) == t - last > navigationTimeout

\* A load handler that leaves the flag set.
flagOnNavigationCompleteKept == TRUE

\* the handlers' assignments to the flag
flagOnNavigationStart == TRUE
flagOnNavigationComplete == FALSE
flagOnDomContentLoaded == TRUE

OnGrid == (now - T0) % EventGrid = 0

\* page 'framenavigated' for the main frame: _handleNavigationStart.
HandleNavigationStart ==
  /\ UNCHANGED << sessionVars, extVars >>
  /\ ~closed
  /\ OnGrid
  /\ Len(watchers) < MaxStarts
  /\ watchers' = Append(watchers, [st |-> "polling", due |-> now + checkInterval])
  /\ navigationState' = [isNavigating |-> flagOnNavigationStart,
                         lastNavigationStart |-> now,
                         navigationPromise |-> Len(watchers) + 1]
  /\ waiters' = [i \in DOMAIN waiters |->
                   IF waiters[i].st = "waiting"
                     THEN [waiters[i] EXCEPT !.restarted = TRUE]
                     ELSE waiters[i]]
  /\ navHistory' = [startSeen |-> TRUE, startAt |-> now, loadSinceStart |-> FALSE,
                    last |-> "progress"]
  /\ UNCHANGED now

\* page 'load': _handleNavigationComplete.
HandleNavigationComplete ==
  /\ UNCHANGED << sessionVars, extVars >>
  /\ ~closed
  /\ OnGrid
  /\ navigationState' = [navigationState EXCEPT !.isNavigating = flagOnNavigationComplete]
  /\ navHistory' = [navHistory EXCEPT !.loadSinceStart = TRUE, !.last = "load"]
  /\ UNCHANGED << now, watchers, waiters >>

\* page 'domcontentloaded'.
DomContentLoaded ==
  /\ UNCHANGED << sessionVars, extVars >>
  /\ ~closed
  /\ OnGrid
  /\ navigationState' = [navigationState EXCEPT !.isNavigating = flagOnDomContentLoaded]
  /\ navHistory' = [navHistory EXCEPT !.last = "progress"]
  /\ UNCHANGED << now, watchers, waiters >>

\* A caller asks isNavigating().
IsNavigatingCall ==
  /\ UNCHANGED << sessionVars, extVars >>
  /\ navigationState' =
       [navigationState EXCEPT
          !.isNavigating = isNavigatingFlag(navigationState.isNavigating, now,
                                            navigationState.lastNavigationStart)]
  /\ navHistory' =
       IF isStale(now, navigationState.lastNavigationStart)
          /\ navigationState.isNavigating
         THEN [navHistory EXCEPT !.last = "stale"]
         ELSE navHistory
  /\ UNCHANGED << now, watchers, waiters >>

\* What a waiter records when it returns at time t.
Returned(w, t) ==
  [w EXCEPT !.st = "returned",
            !.late = t - w.calledAt > navigationTimeout + checkInterval,
            !.lateSinceStart = t - Max(w.calledAt, navHistory.startAt)
                                 > navigationTimeout + checkInterval]

\* A caller invokes waitForNavigationComplete(): it awaits the current
\* navigationPromise, if there is one; a settled one releases it at once.
WaitForNavigationComplete ==
  /\ UNCHANGED << sessionVars, extVars >>
  /\ OnGrid
  /\ Len(waiters) < MaxWaits
  /\ LET p == navigationState.navigationPromise
         w == [on |-> p, calledAt |-> now, st |-> "waiting", restarted |-> FALSE,
               late |-> FALSE, lateSinceStart |-> FALSE]
     IN waiters' = Append(waiters,
                          IF p = 0 \/ watchers[p].st = "resolved"
                            THEN Returned(w, now) ELSE w)
  /\ UNCHANGED << now, navigationState, watchers, navHistory >>

\* The checkComplete timer of watcher i fires.
CheckComplete(i) ==
  /\ UNCHANGED << sessionVars, extVars >>
  /\ watchers[i].st = "polling"
  /\ watchers[i].due = now
  /\ LET done == ~navigationState.isNavigating
         timedOut == checkTimedOut(now, navigationState.lastNavigationStart)
     IN /\ watchers' = [watchers EXCEPT
                          ![i] = IF done \/ timedOut
                                   THEN [st |-> "resolved", due |-> 0]
                                   ELSE [st |-> "polling", due |-> now + checkInterval]]
        /\ navigationState' =
             IF ~done /\ timedOut
               THEN [navigationState EXCEPT !.isNavigating = FALSE]
               ELSE navigationState
        /\ navHistory' =
             IF ~done /\ timedOut THEN [navHistory EXCEPT !.last = "timeout"]
             ELSE navHistory
        /\ waiters' = [k \in DOMAIN waiters |->
                         IF (done \/ timedOut) /\ waiters[k].st = "waiting"
                            /\ waiters[k].on = i
                           THEN Returned(waiters[k], now) ELSE waiters[k]]
  /\ UNCHANGED now

\* Time passes, up to the next instant at which something can happen: the due
\* time of a pending timer or the next point of the event grid.  A timer fires
\* at its due time: time does not pass a timer that is due.
DueTimes == { watchers[i].due : i \in { k \in DOMAIN watchers : watchers[k].st = "polling" } }
NextGrid == now + EventGrid - ((now - T0) % EventGrid)
Tick ==
  /\ UNCHANGED << sessionVars, extVars >>
  /\ \A d \in DueTimes : d > now
  /\ LET t == CHOOSE x \in DueTimes \cup {NextGrid} :
                \A y \in DueTimes \cup {NextGrid} : x <= y
     IN /\ t <= Horizon
        /\ now' = t
  /\ UNCHANGED << navigationState, watchers, waiters, navHistory >>

\* ----------------------------------------------------------- waitForTimeout

\* _javaScriptBlocked: a dialog is among the pending modal states
javaScriptBlocked(ms) == \E i \in 1 .. Len(ms) : ms[i].type = "dialog"

\* waitForTimeout(time): with a dialog pending the timer is set in the server's
\* own process, otherwise it is evaluated in the page.  The call is not made
\* through _raceAgainstModalStates.
waitForTimeoutBranch(ms) == IF javaScriptBlocked(ms) THEN "nodeTimer" ELSE "pageEvaluate"

WaitForTimeoutCall(w) ==
  /\ UNCHANGED << sessionVars, navVars, artifactVars, downloadVars, navigateWait,
                  refVars, callVars >>
  /\ ~closed
  /\ timedWaits[w] = "none"
  /\ timedWaits' = [timedWaits EXCEPT ![w] = waitForTimeoutBranch(modalStates)]

\* the server-side setTimeout of a blocked call fires: the call returns
WaitNodeTimerFires(w) ==
  /\ UNCHANGED << sessionVars, navVars, artifactVars, downloadVars, navigateWait,
                  refVars, callVars >>
  /\ timedWaits[w] = "nodeTimer"
  /\ timedWaits' = [timedWaits EXCEPT ![w] = "returned"]

\* the page-side timer fires and page.evaluate answers: the call returns.  The
\* page runs no script, so neither the timer callback nor the answer, while a
\* dialog is open.
WaitPageTimerFires(w) ==
  /\ UNCHANGED << sessionVars, navVars, artifactVars, downloadVars, navigateWait,
                  refVars, callVars >>
  /\ timedWaits[w] = "pageEvaluate"
  /\ ~javaScriptBlocked(modalStates)
  /\ timedWaits' = [timedWaits EXCEPT ![w] = "returned"]

\* ---------------------------------------------------------- custom references

\* the options of getNextCustomRefId: << >> stands for no options or no
\* batchId, << b >> for the batchId b (which may be the empty string)
BatchIds == {"", "x", "x_element_1"}
RefOptions == {<< >>} \cup { << b >> : b \in BatchIds }

\* `options?.batchId && options.batchId.length > 0`
hasBatchId(options) == options # << >> /\ options[1] # ""

\* the identifier built from the counter after its increment
customRefIdFromOldCounter(options, counter) ==
  IF hasBatchId(options)
    THEN "batch_" \o options[1] \o "_element_" \o ToString(counter - 1)
    ELSE "element_" \o ToString(counter - 1)

customRefId(options, counter) ==
  IF hasBatchId(options)
    THEN "batch_" \o options[1] \o "_element_" \o ToString(counter)
    ELSE "element_" \o ToString(counter)

refFrame == << sessionVars, navVars, artifactVars, downloadVars, navigateWait,
               timedWaits, callVars >>

GetNextCustomRefId(options) ==
  /\ UNCHANGED refFrame
  /\ customRefCounter < MaxRefCalls
  /\ customRefCounter' = customRefCounter + 1
  /\ refIds' = Append(refIds, customRefId(options, customRefCounter'))
  /\ UNCHANGED customRefMappings

RegisterCustomRef(ref, selector) ==
  /\ UNCHANGED refFrame
  /\ customRefMappings' = [customRefMappings EXCEPT ![ref] = selector]
  /\ UNCHANGED << customRefCounter, refIds >>

UnregisterCustomRef(ref) ==
  /\ UNCHANGED refFrame
  /\ customRefMappings' = [customRefMappings EXCEPT ![ref] = ""]
  /\ UNCHANGED << customRefCounter, refIds >>

ClearCustomRefs ==
  /\ UNCHANGED refFrame
  /\ customRefMappings' = [ref \in DOMAIN customRefMappings |-> ""]
  /\ UNCHANGED << customRefCounter, refIds >>

\* ---------------------------------------------------------- selector resolution
\* Texts are sequences of pieces; a message is the concatenation of its pieces.

Selectors == {"s1", "s2"}
Elements == {"a", "b"}

\* a SelectorResolutionResult: the locator (or none), the error (undefined,
\* the empty string or a text) and the suggested alternatives (or none)
ResolutionResults ==
  [locator : {"none", "L1", "L2"}, error : {"none", "", "E1", "E2"},
   alternatives : {"none", "alt"}]

SeqsUpTo(S, n) == UNION { [1 .. k -> S] : k \in 0 .. n }

\* SelectorResolver.resolveSelectors: one result for each selector, in the
\* order of the selectors
resolveSelectors(selectors) == [1 .. Len(selectors) -> ResolutionResults]

\* `r.locator && !r.error`
successful(r) == r.locator # "none" /\ r.error \in {"none", ""}

\* `r.error || 'Unknown error'`
errorText(r) == IF r.error \in {"none", ""} THEN "Unknown error" ELSE r.error

RECURSIVE Join(_, _)
Join(texts, sep) ==
  IF Len(texts) = 0 THEN << >>
  ELSE IF Len(texts) = 1 THEN << texts[1] >>
  ELSE << texts[1], sep >> \o Join(Tail(texts), sep)

\* successfulResults[0] read from the wrong end
lastSuccessful(results) == results[Len(results)]

\* successfulResults[0]
firstSuccessful(results) == results[1]

\* resolveFirstElement after `await tab.resolveElementLocators(selectors)`
resolveFirstElementOutcome(results, errorMessage) ==
  LET successfulResults == SelectSeq(results, successful) IN
    IF Len(successfulResults) = 0
      THEN [st |-> "threw",
            message |-> << errorMessage, ": " >>
                          \o Join([i \in DOMAIN results |-> errorText(results[i])], ", ")]
      ELSE [st |-> "returned", locator |-> firstSuccessful(successfulResults).locator]

resolveFrame == << sessionVars, navVars, artifactVars, downloadVars, navigateWait,
                   timedWaits, refVars, snapshotCall, drag >>

\* resolveFirstElement(tab, selectors) up to its await
ResolveFirstElementCall ==
  /\ UNCHANGED resolveFrame
  /\ resolution.op = "none"
  /\ \E selectors \in SeqsUpTo(Selectors, MaxSelectors) :
       resolution' = [op |-> "resolveFirstElement", st |-> "pending",
                      selectors |-> selectors]

\* tab.resolveElementLocators settles with the results
ResolveFirstElementSettled ==
  /\ UNCHANGED resolveFrame
  /\ resolution.op = "resolveFirstElement" /\ resolution.st = "pending"
  /\ \E results \in resolveSelectors(resolution.selectors) :
       resolution' =
         [op |-> "resolveFirstElement", st |-> "settled",
          selectors |-> resolution.selectors, results |-> results,
          outcome |-> resolveFirstElementOutcome(results,
                                                 "Failed to resolve element selectors")]

\* the params of refLocators: an element label and a selector (or none)
RefParams == [element : Elements, selector : Selectors \cup {"none"}]

\* the positions of params.map at which `!p.selector` holds
missingSelector(params) == { i \in DOMAIN params : params[i].selector = "none" }

\* `result.error || !result.locator`
failedResult(r) == r.error \notin {"none", ""} \/ r.locator = "none"

\* the message of refLocator / refLocators for a failed result
failureMessage(element, r) ==
  << "Failed to resolve selector for element \"", element, "\": ", errorText(r) >>
    \o (IF r.alternatives # "none"
          THEN << ". Alternatives: ", r.alternatives >>
          ELSE << >>)

\* result.locator.describe(element)
describe(locator, element) == << locator, element >>

Least(S) == CHOOSE i \in S : \A j \in S : i <= j
Greatest(S) == CHOOSE i \in S : \A j \in S : i >= j

\* the loop of refLocators throws at the position it meets first
positionThrownAtLast(failing) == Greatest(failing)

positionThrownAt(failing) == Least(failing)

\* the loop of refLocators over the resolution results
refLocatorsOutcome(params, results) ==
  LET failing == { i \in DOMAIN results : failedResult(results[i]) } IN
    IF failing # {}
      THEN [st |-> "threw",
            message |-> failureMessage(params[positionThrownAt(failing)].element,
                                       results[positionThrownAt(failing)])]
      ELSE [st |-> "returned",
            locators |-> [i \in DOMAIN results |->
                            describe(results[i].locator, params[i].element)]]

\* refLocators(params) up to its await: params.map throws at the first param
\* without a selector, before the resolver is called
RefLocatorsCall ==
  /\ UNCHANGED resolveFrame
  /\ resolution.op = "none"
  /\ \E params \in SeqsUpTo(RefParams, MaxSelectors) :
       resolution' =
         IF missingSelector(params) # {}
           THEN [op |-> "refLocators", st |-> "settled", params |-> params,
                 resolverCalled |-> FALSE, results |-> << >>,
                 outcome |-> [st |-> "threw",
                              message |-> << "Missing selector for element: ",
                                             params[Least(missingSelector(params))].element >>]]
           ELSE [op |-> "refLocators", st |-> "pending", params |-> params,
                 resolverCalled |-> TRUE]

\* _selectorResolver.resolveSelectors settles with the results
RefLocatorsSettled ==
  /\ UNCHANGED resolveFrame
  /\ resolution.op = "refLocators" /\ resolution.st = "pending"
  /\ \E results \in resolveSelectors([i \in DOMAIN resolution.params |->
                                         resolution.params[i].selector]) :
       resolution' =
         [op |-> "refLocators", st |-> "settled", params |-> resolution.params,
          resolverCalled |-> TRUE, results |-> results,
          outcome |-> refLocatorsOutcome(resolution.params, results)]

\* ------------------------------------------------------------ snapshot texts
\* A text is a sequence of characters; positions are counted from 0 as in the
\* code.
MaxLead == 2
MaxWord == 22
MaxTail == 2
MaxLength == 24
MaxLines == 4
MaxDepth == 2

Run(c, n) == [i \in 1 .. n |-> c]
charAt(text, i) == text[i + 1]
substring(text, from, to) == SubSeq(text, from + 1, IF to < Len(text) THEN to ELSE Len(text))

\* white space as String.prototype.trim sees it, among the characters of the
\* texts here
isWhitespace(c) == c \in {" ", "\n", "\t"}

RECURSIVE trimStart(_)
trimStart(text) ==
  IF text = << >> \/ ~ isWhitespace(Head(text)) THEN text ELSE trimStart(Tail(text))

RECURSIVE trimEnd(_)
trimEnd(text) ==
  IF text = << >> \/ ~ isWhitespace(text[Len(text)]) THEN text
  ELSE trimEnd(SubSeq(text, 1, Len(text) - 1))

trim(text) == trimEnd(trimStart(text))

\* text[maxLength] !== ' ' && text[maxLength] !== '\n' dropped
atBoundaryNever(text, maxLength) == FALSE

\* the test of _truncateAtWordBoundary on the character at maxLength
atBoundary(text, maxLength) ==
  charAt(text, maxLength) = " " \/ charAt(text, maxLength) = "\n"

\* the loop from maxLength - 1 down to 0: the last space or line break before
\* maxLength, or maxLength when there is none
lastBoundaryBefore(text, maxLength) ==
  LET found == { i \in 0 .. maxLength - 1 :
                   charAt(text, i) = " " \/ charAt(text, i) = "\n" }
  IN IF found = {} THEN maxLength ELSE Greatest(found)

\* maxLength - truncateIndex > 20 read as >= 20
tooFarBackFromTwenty(maxLength, truncateIndex) == maxLength - truncateIndex >= 20

\* the word boundary is given up when it lies more than 20 characters back
tooFarBack(maxLength, truncateIndex) == maxLength - truncateIndex > 20

truncateIndexOf(text, maxLength) ==
  IF ~ atBoundary(text, maxLength)
    THEN LET truncateIndex == lastBoundaryBefore(text, maxLength)
         IN IF tooFarBack(maxLength, truncateIndex) THEN maxLength ELSE truncateIndex
    ELSE maxLength

truncateAtWordBoundary(text, maxLength) ==
  IF Len(text) <= maxLength THEN text
  ELSE LET result == trim(substring(text, 0, truncateIndexOf(text, maxLength)))
       IN IF Len(result) > maxLength THEN substring(result, 0, maxLength) ELSE result

\* the words the code names, spelled out
txtMain == << "m", "a", "i", "n" >>
txtHeader == << "h", "e", "a", "d", "e", "r" >>
txtBanner == << "b", "a", "n", "n", "e", "r" >>
txtFooter == << "f", "o", "o", "t", "e", "r" >>
txtContentinfo == << "c", "o", "n", "t", "e", "n", "t", "i", "n", "f", "o" >>
txtNav == << "n", "a", "v" >>
txtNavigation == << "n", "a", "v", "i", "g", "a", "t", "i", "o", "n" >>
txtAside == << "a", "s", "i", "d", "e" >>
txtComplementary ==
  << "c", "o", "m", "p", "l", "e", "m", "e", "n", "t", "a", "r", "y" >>
txtSection == << "s", "e", "c", "t", "i", "o", "n" >>
txtRegion == << "r", "e", "g", "i", "o", "n" >>
txtArticle == << "a", "r", "t", "i", "c", "l", "e" >>
txtRow == << "r", "o", "w" >>
txtRowgroup == << "r", "o", "w", "g", "r", "o", "u", "p" >>

\* selectorToRole[selector] ?? selector
expectedRoleOf(selector) ==
  CASE selector = txtMain -> txtMain
    [] selector = txtHeader -> txtBanner
    [] selector = txtFooter -> txtContentinfo
    [] selector = txtNav -> txtNavigation
    [] selector = txtAside -> txtComplementary
    [] selector = txtSection -> txtRegion
    [] selector = txtArticle -> txtArticle
    [] OTHER -> selector

\* fullSnapshot.split('\n')
RECURSIVE split(_)
split(text) ==
  IF \A i \in DOMAIN text : text[i] # "\n" THEN << text >>
  ELSE LET at == Least({ i \in DOMAIN text : text[i] = "\n" })
       IN << SubSeq(text, 1, at - 1) >> \o split(SubSeq(text, at + 1, Len(text)))

\* lines.join('\n')
RECURSIVE joinLines(_)
joinLines(lines) ==
  IF Len(lines) = 0 THEN << >>
  ELSE IF Len(lines) = 1 THEN lines[1]
  ELSE lines[1] \o << "\n" >> \o joinLines(Tail(lines))

\* line.length - line.trimStart().length
indentOf(line) == Len(line) - Len(trimStart(line))

IsPrefix(p, text) == Len(p) <= Len(text) /\ SubSeq(text, 1, Len(p)) = p

\* rolePattern.test(trimmedLine) for ^- ${expectedRole}\s*(?:\[[^\]]*\])*\s*:?
\* with a role of letters: after "- " and the role every part of the pattern
\* may match nothing, and nothing anchors the end
rolePatternTest(trimmedLine, expectedRole) ==
  IsPrefix(<< "-", " " >> \o expectedRole, trimmedLine)

\* indent > captureIndent read as >=
deeperOrLevel(indent, captureIndent) == indent >= captureIndent

\* a line belongs to the capture while it is indented more than its first line
deeper(indent, captureIndent) == indent > captureIndent

\* the loop over the lines: the lines captured after the first i - 1
RECURSIVE capturedFrom(_, _, _, _, _)
capturedFrom(lines, i, expectedRole, capturing, captureIndent) ==
  IF i > Len(lines) THEN << >>
  ELSE LET line == lines[i]
           indent == indentOf(line)
       IN IF ~ capturing /\ rolePatternTest(trim(line), expectedRole)
            THEN << line >> \o capturedFrom(lines, i + 1, expectedRole, TRUE, indent)
          ELSE IF capturing
            THEN IF deeper(indent, captureIndent)
                   THEN << line >>
                          \o capturedFrom(lines, i + 1, expectedRole, TRUE, captureIndent)
                   ELSE << >>
          ELSE capturedFrom(lines, i + 1, expectedRole, FALSE, captureIndent)

\* the indentation of a captured line, relative to the first
normalized(line, minIndent) ==
  IF trim(line) = << >> THEN line
  ELSE Run(" ", Max(0, indentOf(line) - minIndent)) \o trimStart(line)

extractPartialSnapshot(fullSnapshot, selector) ==
  LET capturedLines ==
        capturedFrom(split(fullSnapshot), 1, expectedRoleOf(selector), FALSE, -1)
  IN IF Len(capturedLines) > 0
       THEN joinLines([i \in DOMAIN capturedLines |->
                         normalized(capturedLines[i], indentOf(capturedLines[1]))])
       ELSE fullSnapshot

\* _captureSnapshotInternal on the text of the page: selector and maxLength
\* are << >> when absent; a maxLength of 0 is falsy
snapshotText(full, selector, maxLength) ==
  LET snapshot == IF selector # << >> THEN extractPartialSnapshot(full, selector[1])
                  ELSE full
  IN IF maxLength # << >> /\ maxLength[1] # 0 /\ Len(snapshot) > maxLength[1]
       THEN truncateAtWordBoundary(snapshot, maxLength[1])
       ELSE snapshot

\* the texts of pages: up to three words with separators between them, the
\* two examples of lengths 100 and 19
Separators == { << >>, << " " >>, << "\n" >>, << "\t" >>, << " ", " " >> }
HundredLetters == Run("a", 100)
FourWords ==
  Run("a", 4) \o << " " >> \o Run("a", 4) \o << " " >> \o Run("a", 4) \o << " " >>
    \o Run("a", 4)
PageTexts ==
  { Run("a", lead) \o s1 \o Run("a", word) \o s2 \o Run("a", tail) :
      lead \in 0 .. MaxLead, word \in 0 .. MaxWord, tail \in 0 .. MaxTail,
      s1 \in Separators, s2 \in Separators }
    \cup {HundredLetters, FourWords}
MaxLengthInputs == (0 .. MaxLength) \cup {50}

\* the serialized trees of pages: every line is "- role" at two spaces a
\* level, with a colon when children follow; the first line is not indented
\* and a line is at most one level deeper than the line before
TreeRoles == {txtMain, txtContentinfo, txtRowgroup}
RECURSIVE ShapesOfLength(_)
ShapesOfLength(n) ==
  IF n = 1 THEN { << << 0, role >> >> : role \in TreeRoles }
  ELSE UNION { { Append(t, << depth, role >>) :
                   depth \in 0 .. (IF t[Len(t)][1] < MaxDepth THEN t[Len(t)][1] + 1
                                   ELSE MaxDepth),
                   role \in TreeRoles } : t \in ShapesOfLength(n - 1) }
TreeShapes == UNION { ShapesOfLength(n) : n \in 1 .. MaxLines }
treeLine(t, i) ==
  Run(" ", 2 * t[i][1]) \o << "-", " " >> \o t[i][2]
    \o (IF i < Len(t) /\ t[i + 1][1] > t[i][1] THEN << ":" >> ELSE << >>)
treeText(t) == joinLines([i \in DOMAIN t |-> treeLine(t, i)])
PartialSelectors == {txtMain, txtFooter, txtRow, txtNav}

snapshotFrame == << sessionVars, navVars, artifactVars, downloadVars, navigateWait,
                    timedWaits, refVars, resolution, drag >>

\* captureSnapshot with a maxLength and no selector
CaptureTruncated ==
  /\ snapshotCall.st = "none"
  /\ \E full \in PageTexts, maxLength \in MaxLengthInputs :
       snapshotCall' = [st |-> "returned", full |-> full, selector |-> << >>,
                        maxLength |-> << maxLength >>,
                        snapshot |-> snapshotText(full, << >>, << maxLength >>)]
  /\ UNCHANGED snapshotFrame

\* capturePartialSnapshot with a selector and no maxLength
CapturePartial ==
  /\ snapshotCall.st = "none"
  /\ \E t \in TreeShapes, selector \in PartialSelectors :
       snapshotCall' = [st |-> "returned", full |-> treeText(t), tree |-> t,
                        selector |-> << selector >>, maxLength |-> << >>,
                        snapshot |-> snapshotText(treeText(t), << selector >>, << >>)]
  /\ UNCHANGED snapshotFrame

\* ----------------------------------------------------------- drag resolution
\* what resolveDragElements reads of a SelectorResolutionResult
DragResolutionResults ==
  [locator : {"none", "L1", "L2"}, error : {"none", "", "E1"}]

\* tab.resolveElementLocators for one group: one result for each selector
resolveGroup(selectors) == [1 .. Len(selectors) -> DragResolutionResults]

Sides == {"start", "end"}
Pending == [st |-> "pending"]

\* Promise.all read as settling with the first of its promises
eitherSettled(start, end) == start.st = "settled" \/ end.st = "settled"

\* Promise.all([start, end]) is fulfilled when both promises are
bothSettled(start, end) == start.st = "settled" /\ end.st = "settled"

resultsOf(group) == IF group.st = "settled" THEN group.results ELSE << >>

\* resolveDragElements after its await
resolveDragOutcome(startResults, endResults) ==
  LET startSuccessful == SelectSeq(startResults, successful)
      endSuccessful == SelectSeq(endResults, successful)
  IN IF Len(startSuccessful) = 0
       THEN [st |-> "threw",
             message |-> << "Failed to resolve start element selectors", ": " >>
                           \o Join([i \in DOMAIN startResults |->
                                      errorText(startResults[i])], ", ")]
     ELSE IF Len(endSuccessful) = 0
       THEN [st |-> "threw",
             message |-> << "Failed to resolve end element selectors", ": " >>
                           \o Join([i \in DOMAIN endResults |->
                                      errorText(endResults[i])], ", ")]
     ELSE [st |-> "returned", startLocator |-> firstSuccessful(startSuccessful).locator,
           endLocator |-> firstSuccessful(endSuccessful).locator]

dragFrame == << sessionVars, navVars, artifactVars, downloadVars, navigateWait,
                timedWaits, refVars, resolution, snapshotCall >>

\* resolveDragElements(tab, startSelectors, endSelectors) up to its await: the
\* two calls of tab.resolveElementLocators are made before Promise.all is
\* awaited
ResolveDragElementsCall ==
  /\ UNCHANGED dragFrame
  /\ drag.st = "none"
  /\ \E startSelectors \in { Run("s1", n) : n \in 0 .. MaxSelectors },
        endSelectors \in { Run("s2", n) : n \in 0 .. MaxSelectors } :
       drag' = [st |-> "awaiting", startSelectors |-> startSelectors,
                endSelectors |-> endSelectors, start |-> Pending, end |-> Pending,
                order |-> << >>, outcome |-> [st |-> "none"]]

\* one of the two resolutions settles with its results; when Promise.all is
\* fulfilled by it the rest of resolveDragElements runs
DragResolutionSettled ==
  /\ UNCHANGED dragFrame
  /\ drag.st = "awaiting"
  /\ \E side \in Sides :
       /\ drag[side].st = "pending"
       /\ \E results \in resolveGroup(IF side = "start" THEN drag.startSelectors
                                      ELSE drag.endSelectors) :
            LET settled == [drag EXCEPT ![side] = [st |-> "settled", results |-> results],
                                        !.order = Append(@, side)]
            IN drag' = IF bothSettled(settled.start, settled.end)
                         THEN [settled EXCEPT
                                 !.st = "done",
                                 !.outcome = resolveDragOutcome(resultsOf(settled.start),
                                                                resultsOf(settled.end))]
                         ELSE settled

\* ---------------------------------------------------------- specifications

\* The modal arbitrator: callers' operations (which may overlap), each racing
\* its action against the modal events, and the clearing of modal states.
Next ==
  \/ \E c \in CallIds, op \in Ops : StartCall(c, op)
  \/ \E c \in CallIds : ActionAwait(c)
  \/ \E c \in CallIds, t \in Titles : ActionDone(c, t)
  \/ \E c \in CallIds : ActionFail(c)
  \/ \E type \in ModalTypes : SetModalState(type)
  \/ \E m \in SeqToSet(modalSeen) : ClearModalState(m)

Spec == Init /\ [][Next]_vars

\* The snapshot drain of the console buffer: captures (which may overlap),
\* console and pageerror events, modal events and their clearing.
NextConsole ==
  \/ \E c \in CallIds : StartCall(c, "captureSnapshot")
  \/ \E c \in CallIds : ActionAwait(c)
  \/ \E c \in CallIds : ActionDone(c, "A")
  \/ \E c \in CallIds : ActionFail(c)
  \/ \E type \in ModalTypes : SetModalState(type)
  \/ \E m \in SeqToSet(modalSeen) : ClearModalState(m)
  \/ \E kind \in MessageKinds : ConsoleEvent(kind)

SpecConsole == Init /\ [][NextConsole]_vars

\* The navigation tracker with its timers and the clock.
NextNav ==
  \/ HandleNavigationStart
  \/ HandleNavigationComplete
  \/ DomContentLoaded
  \/ IsNavigatingCall
  \/ WaitForNavigationComplete
  \/ \E i \in DOMAIN watchers : CheckComplete(i)
  \/ Tick

SpecNav == Init /\ [][NextNav]_vars

\* The life of the modal-state list among everything else that happens to a
\* tab: modal events and their clearing, a snapshot capture, navigate(url),
\* the navigation events and the close of the page.
NextTab ==
  \/ StartCall(1, "captureSnapshot")
  \/ ActionAwait(1)
  \/ ActionDone(1, "A")
  \/ ActionFail(1)
  \/ \E type \in ModalTypes : SetModalState(type)
  \/ \E m \in SeqToSet(modalSeen) : ClearModalState(m)
  \/ Close
  \/ NavigateCall
  \/ NavigateGotoResolved
  \/ NavigateGotoRejected
  \/ NavigateLoadStateSettled
  \/ HandleNavigationStart
  \/ HandleNavigationComplete
  \/ DomContentLoaded

SpecTab == Init /\ [][NextTab]_vars

\* Timed waits among the modal events.  The timers are fair: a server-side
\* timer that is set fires, and so does a page-side timer whenever the page is
\* able to run script.  Nothing obliges anyone to clear a modal state.
NextWait ==
  \/ \E w \in TimedWaitIds : WaitForTimeoutCall(w)
  \/ \E w \in TimedWaitIds : WaitNodeTimerFires(w)
  \/ \E w \in TimedWaitIds : WaitPageTimerFires(w)
  \/ \E type \in ModalTypes : SetModalState(type)
  \/ \E m \in SeqToSet(modalSeen) : ClearModalState(m)

SpecWait ==
  /\ Init
  /\ [][NextWait]_vars
  /\ \A w \in TimedWaitIds : WF_vars(WaitNodeTimerFires(w))
  /\ \A w \in TimedWaitIds : WF_vars(WaitPageTimerFires(w))

\* navigate(url) with its download-abort path, the downloads, the navigation
\* events and the close of the page.
NextNavigate ==
  \/ NavigateCall
  \/ NavigateGotoResolved
  \/ NavigateGotoRejected
  \/ NavigateGotoAborted
  \/ DownloadWaitFails
  \/ GraceTimerFires
  \/ ShortDelayFires
  \/ NavigateLoadStateSettled
  \/ NavigateLoadStateFailed
  \/ \E d \in DownloadIds : DownloadEvent(d)
  \/ \E d \in DownloadIds : DownloadOutputFileResolved(d)
  \/ \E d \in DownloadIds : DownloadOutputFileRejected(d)
  \/ \E d \in DownloadIds : DownloadSaveResolved(d)
  \/ \E d \in DownloadIds : DownloadSaveRejected(d)
  \/ HandleNavigationStart
  \/ HandleNavigationComplete
  \/ DomContentLoaded
  \/ Close

SpecNavigate == Init /\ [][NextNavigate]_vars

\* The artifact buffers: the console, request, response and download events
\* with the downloads' saves, navigate(url) and the close of the page.
NextArtifacts ==
  \/ \E kind \in MessageKinds : ConsoleEvent(kind)
  \/ \E r \in RequestIds : RequestEvent(r)
  \/ \E r \in RequestIds : ResponseEvent(r)
  \/ \E d \in DownloadIds : DownloadEvent(d)
  \/ \E d \in DownloadIds : DownloadOutputFileResolved(d)
  \/ \E d \in DownloadIds : DownloadOutputFileRejected(d)
  \/ \E d \in DownloadIds : DownloadSaveResolved(d)
  \/ \E d \in DownloadIds : DownloadSaveRejected(d)
  \/ NavigateCall
  \/ NavigateGotoResolved
  \/ NavigateGotoRejected
  \/ NavigateGotoAborted
  \/ DownloadWaitFails
  \/ GraceTimerFires
  \/ ShortDelayFires
  \/ NavigateLoadStateSettled
  \/ NavigateLoadStateFailed
  \/ Close

SpecArtifacts == Init /\ [][NextArtifacts]_vars

\* The custom references of one tab session.
NextRefs ==
  \/ \E options \in RefOptions : GetNextCustomRefId(options)
  \/ \E ref \in Refs, selector \in RefSelectors : RegisterCustomRef(ref, selector)
  \/ \E ref \in Refs : UnregisterCustomRef(ref)
  \/ ClearCustomRefs

SpecRefs == Init /\ [][NextRefs]_vars

\* One call of resolveFirstElement or of refLocators, over every list of
\* selectors or params and every answer of the resolver.
NextResolve ==
  \/ ResolveFirstElementCall
  \/ ResolveFirstElementSettled
  \/ RefLocatorsCall
  \/ RefLocatorsSettled

SpecResolve == Init /\ [][NextResolve]_vars

\* One capture of the page's text, cut to a maxLength, over every text and
\* every maxLength.
NextTruncate == CaptureTruncated

SpecTruncate == Init /\ [][NextTruncate]_vars

\* One partial capture, over every tree and every selector.
NextPartial == CapturePartial

SpecPartial == Init /\ [][NextPartial]_vars

\* One call of resolveDragElements, over every pair of selector lists and every
\* answer of the two resolutions, in either order.
NextDrag ==
  \/ ResolveDragElementsCall
  \/ DragResolutionSettled

SpecDrag == Init /\ [][NextDrag]_vars

\* Captures that succeed or fail, console traffic, navigate and the close of
\* the page together.
NextHistory ==
  \/ \E c \in CallIds : StartCall(c, "captureSnapshot")
  \/ \E c \in CallIds : ActionAwait(c)
  \/ \E c \in CallIds : ActionDone(c, "A")
  \/ \E c \in CallIds : ActionFail(c)
  \/ \E kind \in MessageKinds : ConsoleEvent(kind)
  \/ NavigateCall
  \/ NavigateGotoResolved
  \/ NavigateLoadStateSettled
  \/ Close

SpecHistory == Init /\ [][NextHistory]_vars

\* ------------------------------------------------------------------ properties
Raced(c) == calls[c].op # "none" /\ calls[c].entry = << >>
ModalWon(c) == Raced(c) /\ calls[c].race.st = "resolved" /\ calls[c].race.val # << >>

\* C1: whenever a modal state was added while the guarded action of a race call
\* had not settled, that call returned the list holding exactly that one new
\* modal state (never the empty list), and the operation around it reports it.
C1_ModalBeforeSettleWins ==
  \A c \in CallIds :
    calls[c].during # << >> =>
      /\ calls[c].race = [st |-> "resolved", val |-> calls[c].during]
      /\ Len(calls[c].race.val) = 1
      /\ calls[c].race.val[1] \in SeqToSet(modalSeen)
      /\ calls[c].out.st = "returned"
      /\ calls[c].op = "captureSnapshot" =>
           /\ calls[c].out.kind = "fallback"
           /\ calls[c].out.modalStates = calls[c].during

\* C1 witness: a modal state arrived during a capture whose action completed
\* normally afterwards, and the call kept the modal state as its result.
C1_Witness ==
  \E c \in CallIds :
    /\ calls[c].op = "captureSnapshot"
    /\ calls[c].during # << >>
    /\ calls[c].act = "done"
    /\ calls[c].race.val = calls[c].during

\* C2: a call made while a modal state is pending returns the pending list,
\* never starts its action, registers no listener and has no side effect.
C2_BlockedCallReturnsPending ==
  \A c \in CallIds :
    (calls[c].op # "none" /\ calls[c].entry # << >>) =>
      /\ calls[c].race = [st |-> "resolved", val |-> calls[c].entry]
      /\ calls[c].act = "notStarted"
      /\ c \notin SeqToSet(listeners)
      /\ ~calls[c].tabSnapshot
      /\ calls[c].got = "about:blank"
      /\ calls[c].out.st = "returned"
      /\ calls[c].op = "captureSnapshot" =>
           /\ calls[c].out.modalStates = calls[c].entry
           /\ calls[c].out.consoleMessages = << >>

\* C2 witness: updateTitle was called with two modal states pending.
C2_Witness ==
  \E c \in CallIds :
    /\ calls[c].op = "updateTitle"
    /\ Len(calls[c].entry) = 2
    /\ calls[c].race.val = calls[c].entry

\* C3: a call whose action completed normally with no modal state added before
\* has the empty list as its result and its listener removed; and the result of
\* a settled race is never changed by anything that happens later.
C3_ActionFirstReturnsEmpty ==
  /\ [](\A c \in CallIds :
          (Raced(c) /\ calls[c].act = "done" /\ calls[c].during = << >>) =>
            /\ calls[c].race = [st |-> "resolved", val |-> << >>]
            /\ c \notin SeqToSet(listeners))
  /\ [][\A c \in CallIds :
          calls[c].race.st \in {"resolved", "rejected"} =>
            /\ calls'[c].race = calls[c].race
            /\ calls'[c].out = calls[c].out]_vars

\* C3 witness: the action of a call completed first and a modal state was
\* added afterwards; the call's result is still the empty list.
C3_Witness ==
  \E c \in CallIds :
    /\ Raced(c) /\ calls[c].act = "done" /\ calls[c].during = << >>
    /\ calls[c].race.val = << >>
    /\ modalStates # << >>

\* C4: after a modal state has won the race the action still runs: it can take
\* its next step, the value the call returned does not change when the action
\* settles, and updateTitle's action still stores the title it read.
C4_LoserActionNotCancelled ==
  /\ [](\A c \in CallIds :
          (ModalWon(c) /\ Running(c)) =>
            \/ ENABLED ActionAwait(c)
            \/ ENABLED ActionDone(c, "A"))
  /\ [][\A c \in CallIds :
          (ModalWon(c) /\ Running(c)) =>
            /\ calls'[c].race = calls[c].race
            /\ calls'[c].out = calls[c].out
            /\ (calls'[c].act = "done" /\ calls[c].op = "updateTitle") =>
                 /\ calls'[c].got \in Titles
                 /\ lastTitle' = calls'[c].got]_vars

\* C4 witness: updateTitle returned a modal state and its action stored the
\* title afterwards.
C4_Witness ==
  \E c \in CallIds :
    /\ calls[c].op = "updateTitle"
    /\ ModalWon(c)
    /\ calls[c].act = "done"
    /\ lastTitle = calls[c].got
    /\ lastTitle \in Titles

Succeeded(c) == calls[c].out.kind = "snapshot"

\* C8: when a capture succeeds the recent buffer is left empty, and the capture
\* returns exactly the messages that arrived since the previous successful
\* capture, in arrival order (none if none arrived).
C8_SnapshotDrainsRecent ==
  /\ [](\A c \in CallIds :
          (Succeeded(c) /\ calls[c].clean) =>
            calls[c].out.consoleMessages = calls[c].expected)
  /\ [][\A c \in CallIds :
          (~Succeeded(c) /\ Succeeded(c)') => recentConsoleMessages' = << >>]_vars

\* C8 witness: two captures succeeded, each returning a message of its own:
\* the second one the message that arrived between the two.
C8_Witness ==
  \E c, d \in CallIds :
    /\ c # d /\ Succeeded(c) /\ Succeeded(d)
    /\ calls[c].out.consoleMessages = << 1 >>
    /\ calls[d].out.consoleMessages = << 2 >>
    /\ recentConsoleMessages = << >>

\* C9: every console message is either still in the recent buffer, or attached
\* to exactly one returned snapshot, or was removed by an artifact clear; a
\* capture that returns a modal state returns no console messages and leaves
\* the recent buffer as it was, and a successful one attaches all of it.
C9_NoMessageLostOrDuplicated ==
  /\ [](\A m \in 1 .. messagesSeen :
          /\ attached[m] <= 1
          /\ (attached[m] = 1) # (m \in SeqToSet(recentConsoleMessages) \cup dropped)
          /\ ~(m \in SeqToSet(recentConsoleMessages) /\ m \in dropped))
  /\ [](\A c \in CallIds :
          calls[c].out.kind = "fallback" => calls[c].out.consoleMessages = << >>)
  /\ [][\A c \in CallIds :
          /\ (calls[c].out.kind = "none" /\ calls'[c].out.kind = "fallback") =>
               recentConsoleMessages' = recentConsoleMessages
          /\ (calls[c].out.kind = "none" /\ calls'[c].out.kind = "snapshot") =>
               calls'[c].out.consoleMessages = recentConsoleMessages]_vars

\* C9 witness: a capture was interrupted by a modal state while a message was
\* waiting in the recent buffer, and a later capture returned that message.
C9_Witness ==
  \E c, d \in CallIds :
    /\ calls[c].out.kind = "fallback" /\ calls[c].during # << >>
    /\ calls[c].left # << >>
    /\ Succeeded(d)
    /\ SeqToSet(calls[c].left) \subseteq SeqToSet(calls[d].out.consoleMessages)


\* What isNavigating() returns if it is called in the current state.
IsNavigatingValue ==
  isNavigatingFlag(navigationState.isNavigating, now,
                   navigationState.lastNavigationStart)
WaitBound == navigationTimeout + checkInterval

\* C5 as stated: isNavigating() returns true exactly when a navigation start
\* has been observed, no load since that start, and the start is no more than
\* the staleness threshold ago.
C5_AsStated ==
  IsNavigatingValue =
    (/\ navHistory.startSeen
     /\ ~navHistory.loadSinceStart
     /\ now - navHistory.startAt <= staleTimeout)

\* C5 as amended: isNavigating() returns true exactly when the last navigation
\* event observed is a navigation start or a domcontentloaded (not a load), the
\* flag has not been reset since by the completion watcher's timeout or by a
\* stale isNavigating() call, and a navigation start has been observed no more
\* than the staleness threshold ago.
C5_IsNavigatingExactly ==
  IsNavigatingValue =
    (/\ navHistory.last = "progress"
     /\ navHistory.startSeen
     /\ now - navHistory.startAt <= staleTimeout)

\* C5 witness: after a start and its load, a domcontentloaded makes
\* isNavigating() return true again.
C5_Witness ==
  /\ navHistory.startSeen /\ navHistory.loadSinceStart
  /\ navHistory.last = "progress"
  /\ IsNavigatingValue

\* C6 as stated: every waitForNavigationComplete() call returns within
\* navigationTimeout + checkInterval of the moment it was called.
C6_AsStated ==
  \A k \in DOMAIN waiters :
    /\ waiters[k].st = "waiting" => now - waiters[k].calledAt <= WaitBound
    /\ ~waiters[k].late

\* C6 as amended: every call returns within navigationTimeout + checkInterval
\* of the later of the moment it was called and the most recent navigation
\* start, whether or not a load event ever arrives.
C6_WaitBoundedFromLastStart ==
  \A k \in DOMAIN waiters :
    /\ waiters[k].st = "waiting" =>
         now - Max(waiters[k].calledAt, navHistory.startAt) <= WaitBound
    /\ ~waiters[k].lateSinceStart
    /\ ~waiters[k].restarted => ~waiters[k].late

\* C6 witness: a waiter that saw a second navigation start while waiting was
\* released later than navigationTimeout + checkInterval after its call.
C6_Witness ==
  \E k \in DOMAIN waiters :
    /\ waiters[k].st = "returned"
    /\ waiters[k].restarted
    /\ waiters[k].late

\* C7: isNavigating() never returns true more than 10 s after the last
\* navigation start; a stale call leaves the stored flag false; and the flag
\* turns true only on a navigation start or a domcontentloaded event.
C7_StaleForcesFalse ==
  /\ [](now - navigationState.lastNavigationStart > 10000 => ~IsNavigatingValue)
  /\ [][(IsNavigatingCall /\ now - navigationState.lastNavigationStart > 10000)
          => ~navigationState'.isNavigating]_vars
  /\ [][(~navigationState.isNavigating /\ navigationState'.isNavigating)
          => (HandleNavigationStart \/ DomContentLoaded)]_vars

\* C7 witness: a navigation started, no load was ever observed, and an
\* isNavigating() call more than 10 s later reset the flag.
C7_Witness ==
  /\ navHistory.startSeen /\ ~navHistory.loadSinceStart
  /\ navHistory.last = "stale"
  /\ now - navHistory.startAt > 10000
  /\ ~navigationState.isNavigating


\* C10: the modal-state list is, in order of occurrence, exactly the entries
\* that occurred (one per dialog or filechooser event, each emitted once) and
\* were not handed to clearModalState; nothing else adds or removes an entry.
C10_ModalListIsPendingInterruptions ==
  /\ modalStates = SelectSeq(modalSeen, LAMBDA m : m \notin modalCleared)
  /\ emitted = Len(modalSeen)
  /\ \A i, j \in DOMAIN modalSeen : modalSeen[i] = modalSeen[j] => i = j

\* C10 witness: of two interruptions of the same kind the first was cleared
\* and the second is still listed, after a navigation, a navigate(url) call,
\* a capture and the close of the page.
C10_Witness ==
  /\ Len(modalSeen) = 2
  /\ modalSeen[1].type = modalSeen[2].type
  /\ modalCleared = {modalSeen[1]}
  /\ modalStates = << modalSeen[2] >>
  /\ closed
  /\ navigateCall.pc = "done"
  /\ navHistory.loadSinceStart
  /\ calls[1].op = "captureSnapshot" /\ calls[1].out.st = "returned"

\* C11: every call of waitForTimeout eventually returns, also when a dialog
\* opens before or during the wait and is never cleared.  (As stated;
\* a call made before the dialog opens does not return while it stays open.)
C11_AsStated ==
  \A w \in TimedWaitIds : (timedWaits[w] # "none") ~> (timedWaits[w] = "returned")

\* navigate returned / failed
NavigateSucceeded == navigateCall.pc = "done"
NavigateFailed == navigateCall.pc = "threw"

\* a download event arrived no later than the grace period after an
\* abort-style rejection of goto
DownloadInGrace == navigateWait.goto = "aborted" /\ navigateWait.inGrace

\* C12: navigate completes successfully if and only if goto succeeded, or it
\* was rejected abort-style and a download event arrived no later than the
\* grace period after the rejection; otherwise it fails.  (As stated;
\* a download wait that failed before the rejection makes navigate fail
\* although the download event arrives within the grace period.)
C12_AsStated ==
  (NavigateSucceeded \/ NavigateFailed) =>
     (NavigateSucceeded <=> (navigateWait.goto = "resolved" \/ DownloadInGrace))

\* C13: at the moment navigate returns through the download-abort path the tab
\* is idle (the isNavigating flag is false), even if a navigation start was
\* observed before the abort.  (As stated, for the returns before
\* which the navigation state saw no event since the abort; the download-abort
\* branch does not touch the navigation state.)
C13_AsStated ==
  [][ (/\ navigateCall.pc = "shortDelay" /\ navigateCall'.pc = "done"
       /\ navHistory.startSeen
       /\ navigationState = navigateWait.stateAtAbort)
        => ~navigationState'.isNavigating ]_vars

\* the keys of the request map
RequestKeys == { r \in RequestIds : requests[r] # "absent" }

\* C14: navigate clears the artifacts before goto and not again, so once it
\* has returned (and the page is not closed) the console history and the
\* recent buffer hold exactly the messages, and the request map exactly the
\* requests, whose events arrived after navigate was called.  (As stated;
\* a response that arrives after the clear brings back a request
\* that arrived before it.)
C14_AsStated ==
  (NavigateSucceeded /\ ~closed) =>
     /\ consoleMessages = sinceClear.messages
     /\ recentConsoleMessages = sinceClear.messages
     /\ RequestKeys = sinceClear.requests

\* C15: the close event leaves the console history, the recent console buffer,
\* the request map and the downloads list empty and calls the close callback,
\* once.  (As stated; the downloads list is not cleared.)
C15_AsStated ==
  [][ (~closed /\ closed') =>
        /\ consoleMessages' = << >>
        /\ recentConsoleMessages' = << >>
        /\ RequestKeys' = {}
        /\ downloads' = << >>
        /\ closeNotified' = 1 ]_vars

\* C16: an entry of the downloads list is appended with finished false; its
\* finished is true only once the saveAs of its download has completed
\* successfully, never while the save is in progress or after it failed; and
\* a finished entry stays finished.
C16_FinishedOnlyAfterSave ==
  /\ [](\A i \in DOMAIN downloads :
          downloads[i].finished =>
            /\ downloads[i].download \in saved
            /\ downloadTasks[downloads[i].download] = "finished")
  /\ [][ /\ Len(downloads') > Len(downloads) =>
              ~downloads'[Len(downloads')].finished
         /\ \A i \in DOMAIN downloads :
              downloads[i].finished =>
                (i \in DOMAIN downloads' /\ downloads'[i].finished) ]_vars

C16_Witness ==
  \E i, j \in DOMAIN downloads :
     /\ downloads[i].finished
     /\ downloads[i].download \in saved
     /\ ~downloads[j].finished
     /\ downloadTasks[downloads[j].download] = "failed"

\* C17: failures of background work do not reach a caller.  Once goto has
\* succeeded navigate does not fail: from the load-state wait it can only
\* return, also when the driver's wait failed or timed out.  A failed
\* output-path lookup or save of a download is taken by the handler's catch:
\* no failure escapes, and the tab goes on handling events and commands.
C17_BackgroundFailuresNotPropagated ==
  /\ [](navigateWait.goto = "resolved" => ~NavigateFailed)
  /\ [](propagated = 0)
  /\ [][ navigateCall.pc = "loadState" =>
           navigateCall'.pc \in {"loadState", "done"} ]_vars
  /\ [](\A d \in DownloadIds :
          (/\ ~closed
           /\ downloadTasks[d] = "none"
           /\ \A e \in DownloadIds : e < d => downloadTasks[e] = "failed")
            => ENABLED DownloadEvent(d))

C17_Witness ==
  /\ NavigateSucceeded
  /\ navigateWait.loadState = "failed"
  /\ downloadTasks[1] = "failed"
  /\ downloadTasks[2] = "finished"
  /\ downloads = << [download |-> 2, finished |-> TRUE] >>

\* the identifier the n-th call is to return for its options
ExpectedRefId(options, n) ==
  IF options \in { << b >> : b \in BatchIds \ {""} }
    THEN "batch_" \o options[1] \o "_element_" \o ToString(n)
    ELSE "element_" \o ToString(n)

\* C18: the n-th call of getNextCustomRefId of a session returns the
\* identifier numbered n (element_<n>, or batch_<id>_element_<n> for a
\* non-empty batch identifier), so the numbers go up by one from 1 and no
\* identifier is returned twice; registering, unregistering and clearing
\* references leave the counter alone, and getNextCustomRefId leaves the
\* reference mapping alone.
C18_RefIdsIncreaseAndNeverRepeat ==
  /\ [](/\ Len(refIds) = customRefCounter
        /\ \A i \in DOMAIN refIds :
             \E options \in RefOptions : refIds[i] = ExpectedRefId(options, i)
        /\ \A i, j \in DOMAIN refIds : i # j => refIds[i] # refIds[j])
  /\ [][ /\ customRefMappings' # customRefMappings =>
              (customRefCounter' = customRefCounter /\ refIds' = refIds)
         /\ customRefCounter' # customRefCounter =>
              /\ customRefCounter' = customRefCounter + 1
              /\ Len(refIds') = Len(refIds) + 1
              /\ customRefMappings' = customRefMappings ]_vars

C18_Witness ==
  /\ refIds = << "element_1", "element_2", "batch_x_element_3", "element_4" >>
  /\ customRefMappings["r1"] = "#a"
  /\ customRefMappings["r2"] = ""

\* t is a subsequence of s: the pieces of t occur in s, in the order of t
RECURSIVE IsSubsequence(_, _)
IsSubsequence(t, s) ==
  IF Len(t) = 0 THEN TRUE
  ELSE IF Len(s) = 0 THEN FALSE
  ELSE IF t[1] = s[1] THEN IsSubsequence(Tail(t), Tail(s))
  ELSE IsSubsequence(t, Tail(s))

\* the positions whose result has a locator and no error
Resolved(results) ==
  { i \in DOMAIN results : results[i].locator # "none" /\ results[i].error \in {"none", ""} }

\* the error texts the results carry, in the order of the alternatives
ErrorTextsOf(results) ==
  LET withText == SelectSeq(results, LAMBDA r : r.error \notin {"none", ""})
  IN [i \in DOMAIN withText |-> withText[i].error]

FirstElementDone ==
  resolution.op = "resolveFirstElement" /\ resolution.st = "settled"

\* C19: resolveFirstElement returns the locator of the first alternative, in
\* the caller's order, whose result has a locator and no error; it fails only
\* if no alternative has such a result, and then with one message that
\* contains the error text of every alternative in the caller's order.
C19_FirstResolvedAlternative ==
  FirstElementDone =>
    LET results == resolution.results
        out == resolution.outcome
    IN /\ Len(results) = Len(resolution.selectors)
       /\ Resolved(results) # {} =>
            /\ out.st = "returned"
            /\ \E i \in Resolved(results) :
                 /\ \A j \in Resolved(results) : i <= j
                 /\ out.locator = results[i].locator
       /\ Resolved(results) = {} =>
            /\ out.st = "threw"
            /\ IsSubsequence(ErrorTextsOf(results), out.message)

C19_Witness ==
  /\ FirstElementDone
  /\ Len(resolution.results) = 2
  /\ resolution.results[1].locator = "none" /\ resolution.results[1].error = "E1"
  /\ resolution.results[2].locator = "L2" /\ resolution.results[2].error = "none"
  /\ resolution.outcome = [st |-> "returned", locator |-> "L2"]

RefLocatorsDone == resolution.op = "refLocators" /\ resolution.st = "settled"

\* the positions whose result carries an error or no locator
FailingPositions(results) ==
  { i \in DOMAIN results :
      results[i].error \notin {"none", ""} \/ results[i].locator = "none" }

\* C20: refLocators is all-or-nothing.  A param without a selector fails the
\* call before the resolver is asked, with a message naming that element.  If
\* the result of any position failed, the call fails and returns no locators;
\* the message names the element of the first failing position, with its
\* error text and, when it has them, its suggested alternatives.  Otherwise
\* the call returns one locator per param, in the order of the params.
C20_RefLocatorsAllOrNothing ==
  RefLocatorsDone =>
    LET params == resolution.params
        results == resolution.results
        out == resolution.outcome
        missing == { i \in DOMAIN params : params[i].selector = "none" }
        failing == FailingPositions(results)
    IN /\ missing # {} =>
            /\ ~resolution.resolverCalled
            /\ out.st = "threw"
            /\ \E i \in missing :
                 /\ \A j \in missing : i <= j
                 /\ IsSubsequence(<< params[i].element >>, out.message)
       /\ (missing = {} /\ failing # {}) =>
            /\ out.st = "threw"
            /\ \E i \in failing :
                 /\ \A j \in failing : i <= j
                 /\ out.message[2] = params[i].element
                 /\ results[i].error \notin {"none", ""} =>
                      IsSubsequence(<< params[i].element, results[i].error >>, out.message)
                 /\ results[i].alternatives # "none" =>
                      IsSubsequence(<< params[i].element, results[i].alternatives >>,
                                    out.message)
       /\ (missing = {} /\ failing = {}) =>
            /\ out.st = "returned"
            /\ Len(out.locators) = Len(params)
            /\ \A i \in DOMAIN params :
                 out.locators[i] = << results[i].locator, params[i].element >>
       /\ out.st = "threw" => "locators" \notin DOMAIN out

C20_Witness ==
  /\ RefLocatorsDone
  /\ Len(resolution.params) = 2
  /\ resolution.params[1].element = "a" /\ resolution.params[2].element = "b"
  /\ resolution.resolverCalled
  /\ resolution.results[1].locator = "L1" /\ resolution.results[1].error = "none"
  /\ resolution.results[2].locator = "none" /\ resolution.results[2].error = "E2"
  /\ resolution.results[2].alternatives = "alt"
  /\ resolution.outcome.st = "threw"


\* ---------------------------------------------------------- snapshot texts
TruncateDone ==
  /\ snapshotCall.st = "returned"
  /\ snapshotCall.selector = << >>
  /\ snapshotCall.maxLength # << >>

BoundariesBefore(text, n) == { i \in 0 .. n - 1 : text[i + 1] \in {" ", "\n"} }

\* out is s without the white space at its two ends
IsTrimOf(out, s) ==
  \E i \in 1 .. Len(s) + 1, j \in 0 .. Len(s) :
    /\ out = SubSeq(s, i, j)
    /\ \A k \in 1 .. i - 1 : isWhitespace(s[k])
    /\ \A k \in j + 1 .. Len(s) : isWhitespace(s[k])
    /\ out # << >> => ~ isWhitespace(out[1]) /\ ~ isWhitespace(out[Len(out)])

\* what the cut rule gives for a text longer than n whose character at n is
\* not a space or a line break
CutByRule(text, n, out) ==
  LET before == BoundariesBefore(text, n)
  IN IF before # {} /\ n - Greatest(before) <= 20
       THEN IsTrimOf(out, SubSeq(text, 1, Greatest(before)))
       ELSE IsTrimOf(out, SubSeq(text, 1, n))

TruncationRule(text, n, out) ==
  /\ Len(out) <= n
  /\ Len(text) > n =>
       /\ ~ (text[n + 1] \in {" ", "\n"}) => CutByRule(text, n, out)
       /\ out # << >> => ~ isWhitespace(out[Len(out)])
  /\ (Len(text) > n /\ \A i \in DOMAIN text : ~ isWhitespace(text[i])) => Len(out) = n

\* C21: for every text and every maxLength of at least 1 given to a capture,
\* the returned text is at most maxLength long; when the text is longer and its
\* character at maxLength is not a space or line break, the text is cut at the
\* last space or line break before maxLength, or at maxLength when that lies
\* more than 20 characters back or does not exist; a text that was cut has no
\* white space at its end, and a longer text without white space comes back
\* exactly maxLength long.  A maxLength of 0 counts as no maxLength: the text
\* is returned whole.
C21_TruncationWithinMaxLength ==
  TruncateDone =>
    LET text == snapshotCall.full
        n == snapshotCall.maxLength[1]
        out == snapshotCall.snapshot
    IN /\ n >= 1 => TruncationRule(text, n, out)
       /\ n = 0 => out = text

\* a capture whose last boundary before maxLength lies more than 20 back
C21_Witness ==
  /\ TruncateDone
  /\ LET text == snapshotCall.full
         n == snapshotCall.maxLength[1]
     IN /\ n >= 1 /\ Len(text) > n
        /\ ~ (text[n + 1] \in {" ", "\n"})
        /\ BoundariesBefore(text, n) # {}
        /\ n - Greatest(BoundariesBefore(text, n)) > 20
        /\ Len(snapshotCall.snapshot) = n

\* (As stated; the rule for every maxLength, 0 included.)
C21_AsStated ==
  TruncateDone =>
    TruncationRule(snapshotCall.full, snapshotCall.maxLength[1], snapshotCall.snapshot)

FourWordsAtNine ==
  TruncateDone /\ snapshotCall.full = FourWords /\ snapshotCall.maxLength = << 9 >>

\* C22: cutting the 19 characters "aaaa aaaa aaaa aaaa" to a maxLength of 9
\* gives "aaaa aaaa", 9 characters: the character at 9 is a space, so the cut
\* is at maxLength itself.
C22_FourWordsCutAtNine ==
  FourWordsAtNine =>
    snapshotCall.snapshot = Run("a", 4) \o << " " >> \o Run("a", 4)

C22_Witness == FourWordsAtNine /\ Len(snapshotCall.snapshot) = 9

\* (As stated; the cut gives "aaaa", 4 characters.)
C22_AsStated == FourWordsAtNine => snapshotCall.snapshot = Run("a", 4)


PartialDone == snapshotCall.st = "returned" /\ snapshotCall.selector # << >>

Landmarks == {txtMain, txtHeader, txtFooter, txtNav, txtAside, txtSection, txtArticle}

\* the lines of tree t from first on that a capture starting at first holds:
\* first and the lines right after it that are deeper than first
SubtreeEnd(t, first) ==
  Greatest({ j \in first .. Len(t) : \A k \in first + 1 .. j : t[k][1] > t[first][1] })

\* line k of t, indented relative to line first
Reindented(t, first, k) ==
  Run(" ", 2 * (t[k][1] - t[first][1])) \o << "-", " " >> \o t[k][2]
    \o (IF k < Len(t) /\ t[k + 1][1] > t[k][1] THEN << ":" >> ELSE << >>)

ExpectedPartial(t, role) ==
  LET matching == { i \in DOMAIN t : t[i][2] = role }
  IN IF matching = {} THEN treeText(t)
     ELSE LET first == Least(matching)
          IN joinLines([k \in 1 .. SubtreeEnd(t, first) - first + 1 |->
                          Reindented(t, first, first + k - 1)])

\* C23: a partial capture for a landmark returns the first line whose role is
\* the landmark's role, whatever its indentation, and the lines right after it
\* that are indented more deeply, up to the first line that is not, each
\* re-indented so that the landmark line has no indentation and the nesting
\* below it is kept; when no line has that role the full tree is returned as it
\* is.
C23_PartialSnapshotIsLandmarkSubtree ==
  (PartialDone /\ snapshotCall.selector[1] \in Landmarks) =>
    snapshotCall.snapshot
      = ExpectedPartial(snapshotCall.tree, expectedRoleOf(snapshotCall.selector[1]))

\* an indented main region with a child, followed by a sibling footer region
C23_Witness ==
  /\ PartialDone
  /\ snapshotCall.selector = << txtMain >>
  /\ snapshotCall.tree = << << 0, txtRowgroup >>, << 1, txtMain >>, << 2, txtRowgroup >>,
                            << 1, txtContentinfo >> >>
  /\ snapshotCall.snapshot
       = << "-", " " >> \o txtMain \o << ":", "\n", " ", " ", "-", " " >> \o txtRowgroup


\* ----------------------------------------------------------- drag resolution
DragFailed(results) == Len(SelectSeq(results, successful)) = 0

DragBothDone == drag.start.st = "settled" /\ drag.end.st = "settled"

Arrivals(from) == [i \in 1 .. messagesSeen - from |-> from + i]
ArrivedBeforeClear == messagesSeen - Len(sinceClear.messages)
ArrivedBeforeCapture == messagesSeen - Len(arrivedSince)

IsSuffix(t, s) == Len(t) <= Len(s) /\ SubSeq(s, Len(s) - Len(t) + 1, Len(s)) = t

\* C25: in every reachable state the console history holds, in arrival order,
\* every console and pageerror event since the last artifact clear (navigate
\* or close), and the recent buffer is the suffix of it that holds the events
\* since the later of the last clear and the last successful capture.
C25_ConsoleHistoryInArrivalOrder ==
  /\ consoleMessages = Arrivals(ArrivedBeforeClear)
  /\ recentConsoleMessages = Arrivals(Max(ArrivedBeforeClear, ArrivedBeforeCapture))
  /\ IsSuffix(recentConsoleMessages, consoleMessages)

\* a message before a navigate and one after it, handed out by a capture: the
\* history holds the second message, the recent buffer nothing
C25_Witness ==
  /\ dropped # {}
  /\ consoleMessages = << 2 >>
  /\ recentConsoleMessages = << >>
  /\ \E c \in CallIds :
       /\ calls[c].out.st = "returned" /\ calls[c].out.kind = "snapshot"
       /\ calls[c].out.consoleMessages = << 2 >>

\* ------------------------------------------------------------ race listeners
RaceFinished(c) == calls[c].op # "none" /\ calls[c].race.st # "pending"
RaceInFlight(c) == calls[c].op # "none" /\ calls[c].race.st = "pending"

\* C26: once a race call has finished, with a modal list, with the empty list
\* or with the failure of its action, the listener it registered is no longer
\* registered; so there are never more registered listeners than race calls in
\* flight.  (As stated.)
C26_AsStated ==
  /\ \A c \in CallIds : RaceFinished(c) => c \notin SeqToSet(listeners)
  /\ Len(listeners) <= Cardinality({ c \in CallIds : RaceInFlight(c) })


\* -------------------------------------------------------------- request map
\* C27: in every reachable state each key of the request map is a request
\* whose request event arrived after the last artifact clear (navigate or
\* close), mapped to no response until its response event arrives and to the
\* response from then on; the response event of a request from before the clear
\* does not bring that request back.  (As stated; the response handler enters
\* the response under its request without looking at the keys.)
C27_AsStated ==
  \A r \in RequestKeys :
    /\ r \in sinceClear.requests
    /\ requests[r] = IF r \in requestHistory.responded THEN "response" ELSE "null"

====
